---- MODULE Spec2Model ----
(***************************************************************************)
(* A model of validators/validate_artifacts.py: validate_run and its       *)
(* helpers, run against a small filesystem.  One invocation of             *)
(* validate_run is a sequence of steps in the order of the source's        *)
(* statements; pc is the position in validate_run.                         *)
(***************************************************************************)
EXTENDS Integers, Sequences, FiniteSets, TLC

(***************************************************************************)
(* Bounds of the model.                                                    *)
(***************************************************************************)
\* Depth of the resolved run directory below the filesystem root (level 0).
MaxDepth == 2
\* Number of input fields that differ from the reference run of the test
\* suite's _make_run (a valid run with one config at the project root).
MaxDeviations == 2

(***************************************************************************)
(* JSON values as json.loads returns them.  A key that a dict does not     *)
(* hold reads as Absent; numbers carry their Python repr.                  *)
(***************************************************************************)
Absent == [t |-> "absent"]
JNull == [t |-> "null"]
JStr(s) == [t |-> "str", s |-> s]
JNum(r) == [t |-> "num", s |-> r]
JList(items) == [t |-> "list", items |-> items]
EmptyDict == [t |-> "obj"]

\* File contents: no file at the path, text json.loads rejects, or text that
\* parses to a JSON value (the file is then identified with that value).
NoFile == [t |-> "nofile"]
BadText == [t |-> "badtext"]

\* A local of validate_run that has not been assigned yet.
Unset == [t |-> "unset"]

IsDict(v) == v.t = "obj"

\* dict.get(k, d): the value under k, d when the dict has no key k.
Get(v, k, d) == IF k \in DOMAIN v /\ v[k] # Absent THEN v[k] ELSE d

\* dict.get(k): None when the dict has no key k.
GetOrNone(v, k) == Get(v, k, JNull)

\* str(x) of a scalar: a string is itself, None is "None", a number its repr.
PyStr(v) ==
  CASE v.t = "str" -> v.s
    [] v.t = "null" -> "None"
    [] v.t = "num" -> v.s

\* Python truthiness, as `x or {}` tests it.
Truthy(v) ==
  CASE v.t = "null" -> FALSE
    [] v.t = "str" -> v.s # ""
    [] v.t = "num" -> v.s \notin {"0", "0.0"}
    [] v.t = "list" -> v.items # <<>>
    [] v.t = "obj" -> \E k \in DOMAIN v : k # "t" /\ v[k] # Absent

Range(s) == {s[i] : i \in DOMAIN s}

\* _ensure_list_of_strings: None -> (), a list -> its items' str, else (str,).
EnsureListOfStrings(value) ==
  IF value.t = "null" THEN <<>>
  ELSE IF value.t = "list" THEN [i \in DOMAIN value.items |-> PyStr(value.items[i])]
  ELSE <<PyStr(value)>>

(***************************************************************************)
(* The names validate_run reads.                                           *)
(***************************************************************************)
ArtifactNames == <<"intent.json", "instructions.json", "diff.json">>
ArtifactSet == Range(ArtifactNames)

\* The documents of a run, as the test suite's helpers build them.
CfgObj(version, roles) == [t |-> "obj", version |-> version, roles |-> roles]
RolesMap(trunk, branch) == [t |-> "obj", TRUNK |-> trunk, BRANCH |-> branch]
AuthorObj(actor, role) == [t |-> "obj", actor |-> actor, role |-> role]
ArtObj(run_id, author) == [t |-> "obj", run_id |-> run_id, author |-> author]

(***************************************************************************)
(* Diagnostics.  A printed line is its message (kind), the file names the  *)
(* line spells out and the values it interpolates.                         *)
(***************************************************************************)
Diag(kind, files, values) == [kind |-> kind, files |-> files, values |-> values]

\* The terms of the test suite's vocabulary that each message literal
\* contains, compared case-insensitively as the tests' .lower() does.
Terms(kind) ==
  CASE kind = "RunDirInvalid" -> {"run", "directory"}
    [] kind = "NoProjectRoot" -> {"chimera.yaml", "root"}
    [] kind = "ConfigLoadFailed" -> {"chimera.yaml", "failed"}
    [] kind = "UnsupportedVersion" -> {"unsupported", "chimera.yaml", "version", "1.0"}
    [] kind = "MissingArtifacts" -> {"missing", "artifact"}
    [] kind = "ArtifactLoadFailed" -> {"failed", "artifact"}
    [] kind = "MissingRunId" -> {"missing", "run", "id", "artifact"}
    [] kind = "RunIdMismatch" -> {"run", "id", "mismatch", "artifact"}
    [] kind = "IntentRoleNotTrunk" -> {"intent", "author", "role", "trunk"}
    [] kind = "IntentNotTrunkMember" -> {"intent", "author", "member", "roles", "trunk"}
    [] kind = "InstructionsNotBranchMember" -> {"instructions", "author", "member", "roles", "branch"}
    [] kind = "DiffNotBranchMember" -> {"diff", "author", "member", "roles", "branch"}
    [] kind = "Validated" -> {"artifact", "validated"}

\* Whether json.loads accepts the text of the file.
Parses(file) == file.t \notin {"nofile", "badtext"}

\* str(e) of the json.JSONDecodeError for a file: the parser's complaint and
\* position in the text; the exception does not carry the path.
JsonErrorText(file) == "Expecting value: line 1 column 1 (char 0)"

(***************************************************************************)
(* State.  The first four variables are the filesystem validate_run reads  *)
(* (it never writes); the rest are validate_run's locals, its position,    *)
(* what it has printed and how it ended.                                   *)
(***************************************************************************)
VARIABLES
  runDirKind,    \* "dir", "file" or "absent": what run_path names
  depth,         \* level of the resolved run directory; the root is level 0
  cfgAt,         \* level -> contents of <that ancestor>/chimera.yaml
  files,         \* artifact name -> contents of <run_dir>/<name>
  pc,            \* position in validate_run
  cur,           \* _find_project_root's cur, as a level
  project_root,  \* level found; NoLevel before the walk and when it finds none
  chimera_cfg,
  trunk_roles,
  branch_roles,
  artifacts,     \* the ArtifactBundle, or Unset
  intent_author,
  intent_role,
  instr_author,
  diff_author,
  out,           \* the lines printed to stdout, in order
  ret,           \* "none" while running, then "True" or "False"
  exc,           \* "none", or the exception that left validate_run
  touched,       \* artifact files whose existence or content was read
  checks         \* the numbered checks evaluated so far, in order

inputs == <<runDirKind, depth, cfgAt, files>>
locals == <<cur, project_root, chimera_cfg, trunk_roles, branch_roles, artifacts,
            intent_author, intent_role, instr_author, diff_author>>
vars == <<runDirKind, depth, cfgAt, files, pc, cur, project_root, chimera_cfg,
          trunk_roles, branch_roles, artifacts, intent_author, intent_role,
          instr_author, diff_author, out, ret, exc, touched, checks>>

\* No directory: cur and project_root before the walk, and None after it.
NoLevel == -1

(***************************************************************************)
(* Inputs.  The reference run is the test suite's _make_run: one           *)
(* chimera.yaml at the project root listing the TRUNK and BRANCH actors,   *)
(* and three artifacts sharing a run_id.  An input field is either the     *)
(* reference value or one of its alternatives.                             *)
(***************************************************************************)
RefCfg == CfgObj(JStr("1.0"), RolesMap(JList(<<JStr("alice")>>), JList(<<JStr("bob")>>)))
RefIntent == ArtObj(JStr("r1"), AuthorObj(JStr("alice"), JStr("TRUNK")))
RefInstructions == ArtObj(JStr("r1"), AuthorObj(JStr("bob"), JStr("BRANCH")))
RefDiff == ArtObj(JStr("r1"), AuthorObj(JStr("bob"), JStr("BRANCH")))

RunDirKinds == {"absent", "file"}
BadFiles == {NoFile, BadText, JList(<<>>)}
Versions == {Absent, JStr("2.0"), JNum("1.0")}
RolesValues == {Absent, JStr("admins"), JList(<<>>)}
TrunkEntries == {Absent, JStr("alice"), JStr(""), JList(<<JStr("alice"), JStr("bob")>>),
                 JList(<<JStr("")>>)}
BranchEntries == {Absent, JStr("bob"), JStr(""), JList(<<JStr("alice"), JStr("bob")>>),
                  JList(<<JStr("")>>)}
RunIdValues == {Absent, JStr(""), JStr("r2"), JNull}
AuthorValues == {Absent, JNull, JStr("alice")}
ActorValues == {Absent, JStr(""), JStr("mallory")}
RoleValues == {Absent, JStr("BRANCH"), JStr("trunk")}

Fields == {"runDir", "cfgFile", "version", "roles", "TRUNK", "BRANCH",
           "file_i", "file_n", "file_d", "rid_i", "rid_n", "rid_d",
           "author_i", "author_n", "author_d", "actor_i", "actor_n", "actor_d",
           "role_i"}
FileFields == {"file_i", "file_n", "file_d"}

\* The subsets of S with at most k elements.
RECURSIVE KSubsets(_, _)
KSubsets(S, k) ==
  IF k = 0 THEN {{}}
  ELSE LET P == KSubsets(S, k - 1) IN P \cup {T \cup {x} : T \in P, x \in S}

\* The values of field f when the fields of D may deviate.
Dom(D, f, ref, alts) == IF f \in D THEN alts \cup {ref} ELSE {ref}

\* The sets of fields that deviate together: any MaxDeviations fields, and
\* the three artifact files' states together with any one other field.
Plans == KSubsets(Fields, MaxDeviations) \cup {FileFields \cup {f} : f \in Fields}

\* The chimera.yaml files met on a walk: absent, unparsable, unsupported,
\* the reference one, and a supported one that lists no actor.
WalkCfgFiles == {NoFile, BadText, CfgObj(JStr("2.0"), RefCfg.roles), RefCfg,
                 CfgObj(JStr("1.0"), RolesMap(Absent, Absent))}

\* validate_run has not started: nothing assigned, printed or returned.
Fresh ==
  /\ pc = "start"
  /\ cur = NoLevel
  /\ project_root = NoLevel
  /\ chimera_cfg = Unset
  /\ trunk_roles = {}
  /\ branch_roles = {}
  /\ artifacts = Unset
  /\ intent_author = Unset
  /\ intent_role = Unset
  /\ instr_author = Unset
  /\ diff_author = Unset
  /\ out = <<>>
  /\ ret = "none"
  /\ exc = "none"
  /\ touched = {}
  /\ checks = <<>>

\* A run MaxDepth levels below the root, whose only chimera.yaml is at the
\* root, deviating from the reference run in the fields of a plan.  The
\* artifact files exist only under a run directory that is one.
InitRun ==
  \E D \in Plans :
    \E kind \in Dom(D, "runDir", "dir", RunDirKinds),
       cfgFile \in Dom(D, "cfgFile", Unset, BadFiles),
       version \in Dom(D, "version", JStr("1.0"), Versions),
       roles \in Dom(D, "roles", Unset, RolesValues),
       trunk \in Dom(D, "TRUNK", JList(<<JStr("alice")>>), TrunkEntries),
       branch \in Dom(D, "BRANCH", JList(<<JStr("bob")>>), BranchEntries),
       file_i \in Dom(D, "file_i", Unset, BadFiles),
       file_n \in Dom(D, "file_n", Unset, BadFiles),
       file_d \in Dom(D, "file_d", Unset, BadFiles),
       rid_i \in Dom(D, "rid_i", JStr("r1"), RunIdValues),
       rid_n \in Dom(D, "rid_n", JStr("r1"), RunIdValues),
       rid_d \in Dom(D, "rid_d", JStr("r1"), RunIdValues),
       author_i \in Dom(D, "author_i", Unset, AuthorValues),
       author_n \in Dom(D, "author_n", Unset, AuthorValues),
       author_d \in Dom(D, "author_d", Unset, AuthorValues),
       actor_i \in Dom(D, "actor_i", JStr("alice"), ActorValues),
       actor_n \in Dom(D, "actor_n", JStr("bob"), ActorValues),
       actor_d \in Dom(D, "actor_d", JStr("bob"), ActorValues),
       role_i \in Dom(D, "role_i", JStr("TRUNK"), RoleValues) :
      LET cfg == IF cfgFile # Unset THEN cfgFile
                 ELSE CfgObj(version, IF roles # Unset THEN roles
                                      ELSE RolesMap(trunk, branch))
          doc(file, rid, author, actor, role) ==
            IF file # Unset THEN file
            ELSE ArtObj(rid, IF author # Unset THEN author
                             ELSE AuthorObj(actor, role))
      IN /\ runDirKind = kind
         /\ depth = MaxDepth
         /\ cfgAt = [l \in 0..MaxDepth |-> IF l = 0 THEN cfg ELSE NoFile]
         /\ files =
              IF kind # "dir" THEN [n \in ArtifactSet |-> NoFile]
              ELSE [n \in ArtifactSet |->
                      CASE n = "intent.json" -> doc(file_i, rid_i, author_i, actor_i, role_i)
                        [] n = "instructions.json" -> doc(file_n, rid_n, author_n, actor_n, JStr("BRANCH"))
                        [] n = "diff.json" -> doc(file_d, rid_d, author_d, actor_d, JStr("BRANCH"))]

\* The reference artifacts in a run directory at any level, with any
\* chimera.yaml at each level from the run directory up to the root.
InitWalk ==
  /\ runDirKind = "dir"
  /\ depth \in 0..MaxDepth
  /\ cfgAt \in [0..depth -> WalkCfgFiles]
  /\ files = [n \in ArtifactSet |->
                CASE n = "intent.json" -> RefIntent
                  [] n = "instructions.json" -> RefInstructions
                  [] n = "diff.json" -> RefDiff]

Init == (InitRun \/ InitWalk) /\ Fresh

(***************************************************************************)
(* Messaging and control: _err and _ok print one line and return; an       *)
(* exception that no handler of validate_run catches leaves it without     *)
(* printing or returning.                                                  *)
(***************************************************************************)
Err(message) ==
  /\ out' = Append(out, message)
  /\ ret' = "False"
  /\ pc' = "done"
  /\ exc' = exc

Ok(message) ==
  /\ out' = Append(out, message)
  /\ ret' = "True"
  /\ pc' = "done"
  /\ exc' = exc

Raise(e) ==
  /\ exc' = e
  /\ pc' = "done"
  /\ UNCHANGED <<out, ret>>

Goto(label) ==
  /\ pc' = label
  /\ UNCHANGED <<out, ret, exc>>

(***************************************************************************)
(* Directory levels as _find_project_root walks them.                      *)
(***************************************************************************)
\* candidate.exists() for <level>/chimera.yaml.
Exists(level) == cfgAt[level] # NoFile

\* A walk that stops one level short: it compares cur.parent with the root.
IsRootOffByOne(level) == level <= 1

\* str(cur) == root.
IsRoot(level) == level = 0

\* cur.parent; the parent of the root is the root.
Parent(level) == IF level = 0 THEN 0 ELSE level - 1

\* The configuration's version as validate_run reads it.
VersionOf(cfg) == PyStr(Get(cfg, "version", JStr("")))

\* A gate that only asks for some version.
VersionSupportedNonEmpty(version) == version # ""

VersionSupported(version) == version = "1.0"

\* chimera_cfg.get("roles") or {}.
RolesOf(cfg) == LET r == GetOrNone(cfg, "roles") IN IF Truthy(r) THEN r ELSE EmptyDict

\* set(_ensure_list_of_strings(roles.get(key))).
RoleSet(roles, key) == Range(EnsureListOfStrings(GetOrNone(roles, key)))

\* _load_artifacts' missing: the names, in order, whose path does not exist.
MissingNames(fs) == SelectSeq(ArtifactNames, LAMBDA n : fs[n] = NoFile)

\* The names, in _load_json's order, whose text json.loads rejects.
UnparsableNames(fs) == SelectSeq(ArtifactNames, LAMBDA n : ~Parses(fs[n]))

Bundle(fs) == [intent |-> fs["intent.json"],
               instructions |-> fs["instructions.json"],
               diff |-> fs["diff.json"]]

\* _schema_gate: the stub always passes.
SchemaGateResult(bundle) == TRUE

\* str(artifact.get("run_id", "")).
RunIdOf(artifact) == PyStr(Get(artifact, "run_id", JStr("")))

RunIdsPresent(a, b, c) == a # "" /\ b # "" /\ c # ""

\* An equality test that forgets the diff.
RunIdsEqualFirstTwo(a, b, c) == a = b

RunIdsEqual(a, b, c) == a = b /\ b = c

\* artifact.get("author", {}).
AuthorOf(artifact) == Get(artifact, "author", EmptyDict)

\* str(author.get(key, "")).
AuthorField(author, key) == PyStr(Get(author, key, JStr("")))

(***************************************************************************)
(* validate_run, statement by statement.                                   *)
(***************************************************************************)
\* Lines 50-55: the run directory must be a directory; the walk starts at
\* its resolved path.
CheckRunDir ==
  /\ pc = "start"
  /\ IF runDirKind # "dir"
       THEN /\ Err(Diag("RunDirInvalid", <<>>, <<>>))
            /\ UNCHANGED cur
       ELSE /\ cur' = depth
            /\ Goto("find_root")
  /\ UNCHANGED <<inputs, project_root, chimera_cfg, trunk_roles, branch_roles,
                 artifacts, intent_author, intent_role, instr_author, diff_author,
                 touched, checks>>

\* One turn of _find_project_root's loop, and validate_run's test of what
\* it returns.
FindProjectRootStep ==
  /\ pc = "find_root"
  /\ IF Exists(cur)
       THEN /\ project_root' = cur
            /\ Goto("load_cfg")
            /\ UNCHANGED cur
       ELSE IF IsRoot(cur)
         THEN /\ Err(Diag("NoProjectRoot", <<>>, <<>>))
              /\ UNCHANGED <<cur, project_root>>
         ELSE /\ cur' = Parent(cur)
              /\ Goto("find_root")
              /\ UNCHANGED project_root
  /\ UNCHANGED <<inputs, chimera_cfg, trunk_roles, branch_roles,
                 artifacts, intent_author, intent_role, instr_author, diff_author,
                 touched, checks>>

\* Lines 59-63: _load_yaml_json under try/except Exception.
LoadConfig ==
  /\ pc = "load_cfg"
  /\ LET file == cfgAt[project_root]
     IN IF ~Parses(file)
          THEN /\ Err(Diag("ConfigLoadFailed", <<>>, <<JsonErrorText(file)>>))
               /\ UNCHANGED chimera_cfg
          ELSE /\ chimera_cfg' = file
               /\ Goto("version")
  /\ UNCHANGED <<inputs, cur, project_root, trunk_roles, branch_roles,
                 artifacts, intent_author, intent_role, instr_author, diff_author,
                 touched, checks>>

\* Lines 66-68: the version pin.  chimera_cfg.get is outside any try.
VersionGate ==
  /\ pc = "version"
  /\ IF ~IsDict(chimera_cfg)
       THEN /\ Raise("AttributeError")
            /\ UNCHANGED checks
       ELSE /\ checks' = Append(checks, 1)
            /\ IF ~VersionSupported(VersionOf(chimera_cfg))
                 THEN Err(Diag("UnsupportedVersion", <<>>, <<VersionOf(chimera_cfg)>>))
                 ELSE Goto("roles")
  /\ UNCHANGED <<inputs, locals, touched>>

\* Lines 70-72: the role sets.  roles.get is outside any try.
BuildRoleSets ==
  /\ pc = "roles"
  /\ LET roles == RolesOf(chimera_cfg)
     IN IF ~IsDict(roles)
          THEN /\ Raise("AttributeError")
               /\ UNCHANGED <<trunk_roles, branch_roles>>
          ELSE /\ trunk_roles' = RoleSet(roles, "TRUNK")
               /\ branch_roles' = RoleSet(roles, "BRANCH")
               /\ Goto("load_artifacts")
  /\ UNCHANGED <<inputs, cur, project_root, chimera_cfg,
                 artifacts, intent_author, intent_role, instr_author, diff_author,
                 touched, checks>>

\* Lines 75-80 with _load_artifacts: the existence test of all three paths,
\* then the three _load_json calls in order.
LoadArtifacts ==
  /\ pc = "load_artifacts"
  /\ touched' = ArtifactSet
  /\ IF MissingNames(files) # <<>>
       THEN /\ Err(Diag("MissingArtifacts", MissingNames(files), <<>>))
            /\ UNCHANGED artifacts
       ELSE IF UnparsableNames(files) # <<>>
         THEN /\ Err(Diag("ArtifactLoadFailed", <<>>,
                          <<JsonErrorText(files[UnparsableNames(files)[1]])>>))
              /\ UNCHANGED artifacts
         ELSE /\ artifacts' = Bundle(files)
              /\ Goto("schema")
  /\ UNCHANGED <<inputs, cur, project_root, chimera_cfg, trunk_roles, branch_roles,
                 intent_author, intent_role, instr_author, diff_author, checks>>

\* Lines 83-84: the schema hook; a failing gate would print its own line.
SchemaGate ==
  /\ pc = "schema"
  /\ IF ~SchemaGateResult(artifacts)
       THEN /\ ret' = "False"
            /\ pc' = "done"
            /\ UNCHANGED <<out, exc>>
       ELSE Goto("run_id")
  /\ UNCHANGED <<inputs, locals, touched, checks>>

\* Lines 88-89 with _check_run_id_consistency.  The three .get calls are
\* outside any try.
CheckRunIdConsistency ==
  /\ pc = "run_id"
  /\ IF ~(IsDict(artifacts.intent) /\ IsDict(artifacts.instructions)
          /\ IsDict(artifacts.diff))
       THEN /\ Raise("AttributeError")
            /\ UNCHANGED checks
       ELSE LET rid_intent == RunIdOf(artifacts.intent)
                rid_instr == RunIdOf(artifacts.instructions)
                rid_diff == RunIdOf(artifacts.diff)
            IN IF ~RunIdsPresent(rid_intent, rid_instr, rid_diff)
                 THEN /\ Err(Diag("MissingRunId", ArtifactNames, <<>>))
                      /\ checks' = Append(checks, 2)
                 ELSE /\ checks' = checks \o <<2, 3>>
                      /\ IF ~RunIdsEqual(rid_intent, rid_instr, rid_diff)
                           THEN Err(Diag("RunIdMismatch", <<>>,
                                         <<rid_intent, rid_instr, rid_diff>>))
                           ELSE Goto("intent_author")
  /\ UNCHANGED <<inputs, locals, touched>>

\* Lines 92-93: the intent's author fields; .get on the author is outside
\* any try.
ReadIntentAuthor ==
  /\ pc = "intent_author"
  /\ LET author == AuthorOf(artifacts.intent)
     IN IF ~IsDict(author)
          THEN /\ Raise("AttributeError")
               /\ UNCHANGED <<intent_author, intent_role>>
          ELSE /\ intent_author' = JStr(AuthorField(author, "actor"))
               /\ intent_role' = JStr(AuthorField(author, "role"))
               /\ Goto("intent_role")
  /\ UNCHANGED <<inputs, cur, project_root, chimera_cfg, trunk_roles, branch_roles,
                 artifacts, instr_author, diff_author, touched, checks>>

\* Lines 95-98.
CheckIntentRole ==
  /\ pc = "intent_role"
  /\ checks' = Append(checks, 4)
  /\ IF intent_role.s # "TRUNK"
       THEN Err(Diag("IntentRoleNotTrunk", <<"intent.json">>, <<>>))
       ELSE Goto("intent_member")
  /\ UNCHANGED <<inputs, locals, touched>>

\* Lines 99-102.
CheckIntentMember ==
  /\ pc = "intent_member"
  /\ checks' = Append(checks, 5)
  /\ IF intent_author.s \notin trunk_roles
       THEN Err(Diag("IntentNotTrunkMember", <<"intent.json">>, <<>>))
       ELSE Goto("branch_authors")
  /\ UNCHANGED <<inputs, locals, touched>>

\* Lines 105-106: both authors are read before either is checked.
ReadBranchAuthors ==
  /\ pc = "branch_authors"
  /\ LET ia == AuthorOf(artifacts.instructions)
         da == AuthorOf(artifacts.diff)
     IN IF ~(IsDict(ia) /\ IsDict(da))
          THEN /\ Raise("AttributeError")
               /\ UNCHANGED <<instr_author, diff_author>>
          ELSE /\ instr_author' = JStr(AuthorField(ia, "actor"))
               /\ diff_author' = JStr(AuthorField(da, "actor"))
               /\ Goto("instr_member")
  /\ UNCHANGED <<inputs, cur, project_root, chimera_cfg, trunk_roles, branch_roles,
                 artifacts, intent_author, intent_role, touched, checks>>

\* Lines 108-111.
CheckInstructionsMember ==
  /\ pc = "instr_member"
  /\ checks' = Append(checks, 6)
  /\ IF instr_author.s \notin branch_roles
       THEN Err(Diag("InstructionsNotBranchMember", <<"instructions.json">>, <<>>))
       ELSE Goto("diff_member")
  /\ UNCHANGED <<inputs, locals, touched>>

\* Lines 112-115.
CheckDiffMember ==
  /\ pc = "diff_member"
  /\ checks' = Append(checks, 7)
  /\ IF diff_author.s \notin branch_roles
       THEN Err(Diag("DiffNotBranchMember", <<"diff.json">>, <<>>))
       ELSE Goto("success")
  /\ UNCHANGED <<inputs, locals, touched>>

\* Line 118.
ReturnOk ==
  /\ pc = "success"
  /\ Ok(Diag("Validated", <<>>, <<>>))
  /\ UNCHANGED <<inputs, locals, touched, checks>>

Next ==
  \/ CheckRunDir
  \/ FindProjectRootStep
  \/ LoadConfig
  \/ VersionGate
  \/ BuildRoleSets
  \/ LoadArtifacts
  \/ SchemaGate
  \/ CheckRunIdConsistency
  \/ ReadIntentAuthor
  \/ CheckIntentRole
  \/ CheckIntentMember
  \/ ReadBranchAuthors
  \/ CheckInstructionsMember
  \/ CheckDiffMember
  \/ ReturnOk

Spec == Init /\ [][Next]_vars

\* validate_run is straight-line code run by one thread: whenever a
\* statement is left to run, it runs.
FairSpec == Spec /\ WF_vars(Next)

(***************************************************************************)
(* The run as given, read off the filesystem: what the claims speak of     *)
(* when they say "the configuration", "the run_id values", "the actor".    *)
(* Fields are read as the specification's data model reads them: coerced   *)
(* to a string, empty when the key or its container is not there.          *)
(***************************************************************************)
Done == pc = "done"

Levels == 0..depth

\* The nearest level, from the run directory up, that holds chimera.yaml.
Nearest ==
  IF \E l \in Levels : cfgAt[l] # NoFile
    THEN CHOOSE l \in Levels : cfgAt[l] # NoFile /\ \A m \in Levels : m > l => cfgAt[m] = NoFile
    ELSE NoLevel

CfgFound == runDirKind = "dir" /\ Nearest # NoLevel
GivenCfg == cfgAt[Nearest]
CfgIsObject == CfgFound /\ Parses(GivenCfg) /\ IsDict(GivenCfg)
GivenVersion == IF IsDict(GivenCfg) THEN VersionOf(GivenCfg) ELSE ""
RolesReadable == IsDict(RolesOf(GivenCfg))
GivenRoleSet(key) == IF RolesReadable THEN RoleSet(RolesOf(GivenCfg), key) ELSE {}

AbsentFiles == {n \in ArtifactSet : files[n] = NoFile}
AllParse == \A n \in ArtifactSet : Parses(files[n])
AllObjects == \A n \in ArtifactSet : IsDict(files[n])
AuthorReadable(n) == IsDict(files[n]) /\ IsDict(AuthorOf(files[n]))
GivenRunId(n) == IF IsDict(files[n]) THEN RunIdOf(files[n]) ELSE ""
GivenAuthorField(n, key) ==
  IF AuthorReadable(n) THEN AuthorField(AuthorOf(files[n]), key) ELSE ""
EmptyRunIds == {n \in ArtifactSet : GivenRunId(n) = ""}

\* The one printed line, when exactly one was printed.
OneLine == Len(out) = 1
Line == out[1]
Failed(kind) == ret = "False" /\ exc = "none" /\ OneLine /\ Line.kind = kind

(***************************************************************************)
(* The seven numbered checks of the consistency checker, as predicates on  *)
(* the run as given.                                                       *)
(***************************************************************************)
Violates(k) ==
  CASE k = 1 -> GivenVersion # "1.0"
    [] k = 2 -> EmptyRunIds # {}
    [] k = 3 -> ~(GivenRunId("intent.json") = GivenRunId("instructions.json")
                  /\ GivenRunId("instructions.json") = GivenRunId("diff.json"))
    [] k = 4 -> GivenAuthorField("intent.json", "role") # "TRUNK"
    [] k = 5 -> GivenAuthorField("intent.json", "actor") \notin GivenRoleSet("TRUNK")
    [] k = 6 -> GivenAuthorField("instructions.json", "actor") \notin GivenRoleSet("BRANCH")
    [] k = 7 -> GivenAuthorField("diff.json", "actor") \notin GivenRoleSet("BRANCH")

Violated == {k \in 1..7 : Violates(k)}
Lowest == CHOOSE k \in Violated : \A j \in Violated : k <= j

KindOfCheck(k) ==
  CASE k = 1 -> "UnsupportedVersion"
    [] k = 2 -> "MissingRunId"
    [] k = 3 -> "RunIdMismatch"
    [] k = 4 -> "IntentRoleNotTrunk"
    [] k = 5 -> "IntentNotTrunkMember"
    [] k = 6 -> "InstructionsNotBranchMember"
    [] k = 7 -> "DiffNotBranchMember"

UpTo(k) == [i \in 1..k |-> i]

(***************************************************************************)
(* C1.  For a run directory that exists, whose nearest chimera.yaml is     *)
(* found and parses and whose three artifacts parse, validate_run returns  *)
(* true exactly when the seven data-model invariants hold together, and    *)
(* false in every other case: there is no third outcome.                   *)
(***************************************************************************)
SevenInvariants == AbsentFiles = {} /\ Violated = {}

C1_Pre == CfgFound /\ Parses(GivenCfg) /\ AllParse

\* C1 as claimed: a run whose configuration and artifacts parse returns
\* true when the seven invariants hold and false when they do not.
C1_TrueIffSevenElseFalse ==
  Done /\ C1_Pre =>
    /\ SevenInvariants => ret = "True"
    /\ ~SevenInvariants => ret = "False"

(***************************************************************************)
(* C2.  The checks run in the order version gate, run_id presence, run_id  *)
(* equality, intent role, intent actor in TRUNK, instructions actor in     *)
(* BRANCH, diff actor in BRANCH, and stop at the first that fails: for an  *)
(* input violating several checks at once the one line printed is that of  *)
(* the lowest-numbered violated check and no later check is evaluated.     *)
(***************************************************************************)
\* The configuration and the three artifacts are objects and the roles a
\* mapping (or none): the input reaches the seven checks.
C2_Pre ==
  /\ CfgIsObject
  /\ \/ Violates(1)
     \/ RolesReadable /\ AbsentFiles = {} /\ AllObjects
  /\ Cardinality(Violated) >= 2

\* C2 as claimed: a finished run on an input violating several checks at
\* once failed with the line of its lowest-numbered violated check, having
\* evaluated the checks up to that one and none after it.
C2_LowestViolatedCheckReported ==
  Done /\ C2_Pre =>
    Failed(KindOfCheck(Lowest)) /\ checks = UpTo(Lowest)

\* C2 where every author is an object (or absent): there the claimed order
\* holds, so the claim fails only when reading an author raises.
C2_OrderWhereAuthorsAreObjects ==
  Done /\ C2_Pre /\ (Violates(1) \/ \A n \in ArtifactSet : AuthorReadable(n)) =>
    Failed(KindOfCheck(Lowest)) /\ checks = UpTo(Lowest)

(***************************************************************************)
(* C3.  For any bad input data (run directory absent or not a directory,   *)
(* chimera.yaml undiscoverable, unparsable or of unsupported version, a    *)
(* missing or unparsable artifact, or well-formed JSON of an unexpected    *)
(* shape) validate_run returns false with a descriptive line and raises    *)
(* nothing to its caller.                                                  *)
(***************************************************************************)
UnexpectedShape ==
  /\ CfgFound /\ Parses(GivenCfg)
  /\ \/ ~IsDict(GivenCfg)
     \/ ~RolesReadable
     \/ \E n \in ArtifactSet : Parses(files[n]) /\ ~AuthorReadable(n)

BadInput ==
  \/ runDirKind # "dir"
  \/ ~CfgFound
  \/ ~Parses(GivenCfg)
  \/ IsDict(GivenCfg) /\ GivenVersion # "1.0"
  \/ AbsentFiles # {}
  \/ ~AllParse
  \/ UnexpectedShape

\* C3 as claimed: a finished run on bad input returned false with one
\* line and raised nothing.
C3_BadInputReturnsFalse ==
  Done /\ BadInput => ret = "False" /\ exc = "none" /\ OneLine

(***************************************************************************)
(* C4.  With a discoverable version-1.0 configuration, for every           *)
(* non-empty set of artifact files absent from the run directory,          *)
(* validate_run returns false and its line names every absent file and no  *)
(* file that is present.                                                   *)
(***************************************************************************)
C4_Pre == CfgIsObject /\ GivenVersion = "1.0" /\ AbsentFiles # {}

\* C4 as claimed: a finished run with absent artifact files returned false
\* with the missing-artifact line, whose file names are exactly the absent
\* files.
C4_EveryAbsentFileNamed ==
  Done /\ C4_Pre =>
    /\ Failed("MissingArtifacts")
    /\ Range(Line.files) = AbsentFiles
    /\ "missing" \in Terms(Line.kind)

\* C4 where the roles are a mapping (or none): there every absent file is
\* named, so the claim fails only when building the role sets raises.
C4_AbsentFilesNamedWhereRolesAreMapping ==
  Done /\ C4_Pre /\ RolesReadable =>
    /\ Failed("MissingArtifacts")
    /\ Range(Line.files) = AbsentFiles
    /\ "missing" \in Terms(Line.kind)

(***************************************************************************)
(* C5.  For every configuration whose version is anything other than       *)
(* "1.0", absent included, validate_run returns false whatever the         *)
(* artifacts are, the line is the version line (it has "version" and       *)
(* "1.0"), and no artifact file has been looked at.                        *)
(***************************************************************************)
\* C5: a finished run whose configuration object has a version other than
\* "1.0" returned false with the version line, naming the version read,
\* without having touched or loaded an artifact.
C5_VersionGateBeforeArtifacts ==
  Done /\ CfgIsObject /\ GivenVersion # "1.0" =>
    /\ Failed("UnsupportedVersion")
    /\ Line.values = <<GivenVersion>>
    /\ "version" \in Terms(Line.kind)
    /\ "1.0" \in Terms(Line.kind) \/ "unsupported" \in Terms(Line.kind)
    /\ touched = {}
    /\ artifacts = Unset

\* C5 witness: the version is absent from the configuration, one artifact
\* is missing and another unparsable, and validate_run has returned.
C5_Witness ==
  /\ Done /\ CfgIsObject
  /\ GivenVersion = ""
  /\ files["diff.json"] = NoFile
  /\ files["intent.json"] = BadText
  /\ Failed("UnsupportedVersion")

(***************************************************************************)
(* C6.  Run-id equality.  The run-id checks are evaluated on a run whose   *)
(* configuration is a version-1.0 object with readable roles and whose     *)
(* three artifacts are objects.                                            *)
(***************************************************************************)
RunIdChecked == 2 \in Range(checks)

ReachesRunIdCheck ==
  CfgIsObject /\ GivenVersion = "1.0" /\ RolesReadable /\ AllObjects

GivenRunIds ==
  <<GivenRunId("intent.json"), GivenRunId("instructions.json"), GivenRunId("diff.json")>>

MismatchLine ==
  /\ Failed("RunIdMismatch")
  /\ {"run", "id"} \subseteq Terms(Line.kind)
  /\ "mismatch" \in Terms(Line.kind) \/ "consistent" \in Terms(Line.kind)
  /\ Line.values = GivenRunIds

\* C6 as claimed: whenever the three run_id values are not pairwise equal,
\* validate_run returns false with the mismatch line naming the three
\* values.
C6_AnyUnequalRunIdsGiveMismatch ==
  Done /\ RunIdChecked /\ Violates(3) => MismatchLine

\* C6 as amended: where the run-id checks are evaluated, the mismatch line
\* is printed when the three run_id values are all non-empty and not all
\* equal (plain equality of the strings read); when one of them is empty
\* or absent the missing-run_id line is printed instead, which has no
\* mismatch term and names no value.
C6_NonEmptyUnequalRunIdsGiveMismatch ==
  /\ Done /\ ReachesRunIdCheck => RunIdChecked
  /\ Done /\ RunIdChecked /\ EmptyRunIds = {} /\ Violates(3) => MismatchLine
  /\ Done /\ RunIdChecked /\ EmptyRunIds # {} =>
       /\ Failed("MissingRunId")
       /\ "mismatch" \notin Terms(Line.kind)
       /\ Line.values = <<>>

\* C6 witness: only the diff's run_id differs, and the mismatch line has
\* been printed.
C6_Witness ==
  /\ Done /\ RunIdChecked
  /\ GivenRunIds = <<"r1", "r1", "r2">>
  /\ MismatchLine

(***************************************************************************)
(* C7.  Every invocation of validate_run prints exactly one line, and      *)
(* returns true exactly when that line is the confirmation line and false  *)
(* exactly when it is a failure reason.                                    *)
(***************************************************************************)
\* C7 as claimed: a finished invocation has printed exactly one line and
\* returned a boolean, true exactly for the confirmation line.
C7_ExactlyOneLinePerInvocation ==
  Done =>
    /\ OneLine
    /\ ret \in {"True", "False"}
    /\ ret = "True" <=> Line.kind = "Validated"

(***************************************************************************)
(* C8.  When all three artifact files exist and one of them is not valid   *)
(* structured data, validate_run returns false with a parse-error line     *)
(* that identifies the file that failed to parse.                          *)
(***************************************************************************)
C8_Pre == CfgIsObject /\ GivenVersion = "1.0" /\ RolesReadable
          /\ AbsentFiles = {} /\ ~AllParse

\* C8 as claimed: the parse-error line names a file that failed to parse.
C8_ParseErrorNamesTheFile ==
  Done /\ C8_Pre =>
    /\ Failed("ArtifactLoadFailed")
    /\ \E n \in ArtifactSet : ~Parses(files[n]) /\ n \in Range(Line.files)

(***************************************************************************)
(* C9.  When a run_id is empty or absent, the run_id presence check fails  *)
(* with a line that names exactly the artifacts whose run_id is empty.     *)
(***************************************************************************)
\* C9 as claimed: the missing-run_id line names exactly the artifacts
\* whose run_id is empty.
C9_MissingRunIdNamesTheArtifacts ==
  Done /\ ReachesRunIdCheck /\ EmptyRunIds # {} =>
    /\ Failed("MissingRunId")
    /\ Range(Line.files) = EmptyRunIds

(***************************************************************************)
(* C10.  From a start directory at any depth the walk of                   *)
(* _find_project_root ends; it looks at the start directory first and the  *)
(* root last, returns the nearest directory on the chain that holds        *)
(* chimera.yaml, reports not-found exactly when none does, and the file of *)
(* a farther ancestor is never the one loaded when a nearer one exists,    *)
(* even an unparsable or unsupported one.                                  *)
(***************************************************************************)
WalkOver == pc \notin {"start", "find_root"}

WalkFindsNearest ==
  /\ pc = "find_root" =>
       cur \in Levels /\ \A l \in Levels : l > cur => cfgAt[l] = NoFile
  /\ runDirKind = "dir" /\ WalkOver =>
       /\ project_root = Nearest
       /\ Nearest = NoLevel <=> out # <<>> /\ out[1].kind = "NoProjectRoot"
       /\ Nearest = NoLevel => Failed("NoProjectRoot") /\ cur = 0
  /\ chimera_cfg # Unset => chimera_cfg = GivenCfg
  /\ Done /\ CfgFound /\ ~Parses(GivenCfg) => Failed("ConfigLoadFailed")
  /\ Done /\ CfgIsObject /\ GivenVersion # "1.0" => Failed("UnsupportedVersion")

\* C10: at every moment the walk has looked only at levels nearer than
\* cur and found them empty, what it returns is the nearest level holding
\* chimera.yaml (none exactly when it reports not-found, which it does only
\* at the root), the configuration loaded is that level's file; and a
\* walk that has started always ends.
C10_WalkEndsAtNearestConfig ==
  /\ []WalkFindsNearest
  /\ (pc = "find_root") ~> WalkOver

\* C10 witness: the run directory is two levels down, its parent holds an unparsable
\* chimera.yaml and the root holds the reference one; the walk has stopped
\* at the parent and validate_run has failed on its file.
C10_Witness ==
  /\ Done
  /\ depth >= 2
  /\ cfgAt[depth] = NoFile /\ cfgAt[depth - 1] = BadText /\ cfgAt[depth - 2] = RefCfg
  /\ project_root = depth - 1
  /\ Failed("ConfigLoadFailed")


(***************************************************************************)
(* C11.  validate_run never returns true for a run in which an artifact    *)
(* has no author actor (author absent, author.actor absent or empty),      *)
(* whatever roles.TRUNK and roles.BRANCH are, a bare scalar or a list      *)
(* containing an empty string included: the empty string that stands for   *)
(* a missing actor is matched by no member of a role set.                  *)
(***************************************************************************)
NoActor(n) == GivenAuthorField(n, "actor") = ""

\* C11 as claimed: a finished run with an artifact that has no author actor
\* has not returned true.
C11_NoActorNeverValidates ==
  Done /\ (\E n \in ArtifactSet : NoActor(n)) => ret # "True"

====
